---------------------------- MODULE Spec2Model ----------------------------
(***************************************************************************)
(* Model of pa3.c: a software MMU with a TLB, a two-level page table, a    *)
(* frame allocator driven by per-frame mapping counts, a page-fault        *)
(* handler implementing copy-on-write, and a switch-or-fork controller.    *)
(*                                                                         *)
(* Every operation of pa3.c is one action.  The operations are called one  *)
(* at a time by the trace-driven framework, so an action is the whole call.*)
(***************************************************************************)
EXTENDS Integers, Sequences, FiniteSets

(***************************************************************************)
(* Sizes.  The program takes the macros from vm.h; the model runs them at  *)
(* small values: 2 entries per directory and 2 directories, hence 4 vpns,  *)
(* and 3 frames.  NR_TLB_ENTRIES is derived as in pa3.c line 45.           *)
(***************************************************************************)
NR_PTES_PER_PAGE == 2

NR_PAGEFRAMES == 3

NR_TLB_ENTRIES == NR_PTES_PER_PAGE * NR_PTES_PER_PAGE

\* Bounds of the exploration: processes ever created, pids the driver asks
\* for, and calls in one run.
MaxProcs == 4

MaxPid == 2

MaxSteps == 4

\* The highest vpn the driver of Spec names.
MaxVpn == 2

\* Calls in one run of the framework's trace.
TraceSteps == 5

\* Calls and processes in one run that allocates and then keeps forking.
CapSteps == 18

CapProcs == 18

\* Calls in one run that drives the TLB, and the highest vpn such a run
\* names.
TlbSteps == 5

TlbMaxVpn == 1

\* Calls in one run that keeps allocating.
FillSteps == 13

\* Calls in one run that shares every frame up to the cap and then faults.
ExhaustSteps == 11

\* Calls in one run of the framework with its memory accesses.
MmuSteps == 4

\* The rw flag values of the framework; alloc_page tests only rw == 1.
RW_READ == 1

RW_WRITE == 2

\* The sharing cap tested by alloc_page.
MAPCOUNT_CAP == 16

\* unsigned int is 32 bits wide.  A value is named by the integer of the
\* same bit pattern in two's complement, so 0xFFFFFFFF is -1; this is also
\* the value alloc_page hands back for "return -1".
UINT_MAX == -1

Outer == 0 .. (NR_PTES_PER_PAGE - 1)

Inner == 0 .. (NR_PTES_PER_PAGE - 1)

VPNs == 0 .. (NR_PTES_PER_PAGE * NR_PTES_PER_PAGE - 1)

Frames == 0 .. (NR_PAGEFRAMES - 1)

Slots == 0 .. (NR_TLB_ENTRIES - 1)

Pids == 0 .. MaxPid

RWFlags == {RW_READ, RW_WRITE}

\* The vpns and the frame numbers a run that drives the TLB names: the
\* lowest and the highest frame.
TlbVPNs == {v \in VPNs : v <= TlbMaxVpn}

TlbPfns == {0, NR_PAGEFRAMES - 1}

\* The vpns a run that keeps allocating names: the first vpn of the first
\* directory and of the second.
FillVPNs == {0, NR_PTES_PER_PAGE}

\* The vpns the driver of Spec names.
DriverVPNs == {v \in VPNs : v <= MaxVpn}

\* mapcounts[pfn]++ and mapcounts[pfn]-- on a 32-bit unsigned counter.
U32Inc(x) == IF x = UINT_MAX THEN 0 ELSE x + 1

U32Dec(x) == IF x = 0 THEN UINT_MAX ELSE x - 1

\* Unsigned comparison of two 32-bit patterns.
U32Less(x, y) ==
    IF (x < 0) = (y < 0) THEN x < y ELSE y < 0

VARIABLES
    mapcounts,   \* mapcounts[f]: the frame's counter
    procs,       \* the process objects ever created: <<[pid, pagetable]>>
    processes,   \* the ready queue: a sequence of indices into procs
    current,     \* index of the running process
    ptbr,        \* index of the process whose page table ptbr points at
    tlb,         \* tlb[i] = [valid, vpn, pfn]
    segv,        \* the program has died on a NULL dereference
    heap,        \* what a PTE in memory fresh from malloc reads as
    last,        \* the call just made, its arguments and its result
    steps        \* calls made so far

vars ==
    <<mapcounts, procs, processes, current, ptbr, tlb, segv, heap, last, steps>>

(***************************************************************************)
(* Page tables.  A PTE is struct pte {valid, writable, pfn, private}.  An  *)
(* entry of outer_ptes is either NULL (present = FALSE) or a directory.    *)
(***************************************************************************)
ZeroPTE == [valid |-> FALSE, writable |-> FALSE, pfn |-> 0, private |-> 0]

NullDir == [present |-> FALSE, ptes |-> [j \in Inner |-> ZeroPTE]]

ZeroPagetable == [i \in Outer |-> NullDir]

\* malloc does not initialise what it returns.  A PTE nobody has written
\* reads as whatever the heap holds: zero bytes, or the bytes of an entry
\* that was live.  The heap's content is fixed for a run (heap).
UninitPTEs ==
    {ZeroPTE,
     [valid |-> TRUE, writable |-> TRUE, pfn |-> NR_PAGEFRAMES - 1, private |-> 3]}

\* A directory fresh from malloc(sizeof(struct pte_directory)).
MallocDir(h) == [present |-> TRUE, ptes |-> [j \in Inner |-> h]]

\* An outer_ptes slot of a process fresh from malloc that nobody has
\* written: NULL on a zero heap, otherwise a stray pointer, read as
\* pointing at memory of the heap's content.
UninitOuter(h) == IF h = ZeroPTE THEN NullDir ELSE MallocDir(h)

outIndex(vpn) == vpn \div NR_PTES_PER_PAGE

inIndex(vpn) == vpn % NR_PTES_PER_PAGE

PTEOf(pt, vpn) == pt[outIndex(vpn)].ptes[inIndex(vpn)]

SetPTE(pt, vpn, pte) ==
    [pt EXCEPT ![outIndex(vpn)].ptes[inIndex(vpn)] = pte]

CurPT == procs[current].pagetable


(***************************************************************************)
(* The TLB: lookup_tlb, insert_tlb, free_tlb, flush_tlb.                   *)
(***************************************************************************)
\* The slots a scan for vpn stops at: valid and holding vpn.
TlbMatches(t, vpn) == {i \in Slots : t[i].valid /\ t[i].vpn = vpn}

TlbInvalid(t) == {i \in Slots : ~t[i].valid}

MinOf(S) == CHOOSE x \in S : \A y \in S : x <= y

\* lookup_tlb: the first valid slot holding vpn decides.
lookup_tlb(t, vpn) ==
    IF TlbMatches(t, vpn) = {}
        THEN [hit |-> FALSE, pfn |-> 0]
        ELSE [hit |-> TRUE, pfn |-> t[MinOf(TlbMatches(t, vpn))].pfn]

\* insert_tlb with an eviction policy: a full TLB gives up slot 0.
InsertTlbEvicts(t, vpn, pfn) ==
    [t EXCEPT ![IF TlbInvalid(t) = {} THEN 0 ELSE MinOf(TlbInvalid(t))] =
                  [valid |-> TRUE, vpn |-> vpn, pfn |-> pfn]]

\* insert_tlb: the first invalid slot is filled; a full TLB is left alone.
insert_tlb(t, vpn, pfn) ==
    IF TlbInvalid(t) = {}
        THEN t
        ELSE [t EXCEPT ![MinOf(TlbInvalid(t))] =
                           [valid |-> TRUE, vpn |-> vpn, pfn |-> pfn]]

\* free_tlb: every valid slot holding vpn loses its valid bit only.
free_tlb(t, vpn) ==
    [i \in Slots |-> IF t[i].valid /\ t[i].vpn = vpn
                        THEN [t[i] EXCEPT !.valid = FALSE]
                        ELSE t[i]]

\* flush_tlb with the loop starting at slot 1.
FlushTlbFromSecond(t) ==
    [i \in Slots |-> IF i = 0 THEN t[i] ELSE [t[i] EXCEPT !.valid = FALSE]]

\* flush_tlb: every slot loses its valid bit only.
flush_tlb(t) == [i \in Slots |-> [t[i] EXCEPT !.valid = FALSE]]

(***************************************************************************)
(* alloc_page.                                                             *)
(***************************************************************************)
FreeFrames(mc) == {f \in Frames : mc[f] = 0}

\* ScanFrame with the scan keeping the last free index instead of stopping
\* at the first.
ScanFrameLastFree(mc) ==
    IF FreeFrames(mc) = {}
        THEN NR_PAGEFRAMES - 1
        ELSE CHOOSE x \in FreeFrames(mc) : \A y \in FreeFrames(mc) : y <= x

\* The scan of lines 171-176: pfn is the first index whose count is 0, and
\* the last index when the loop runs to its end.
ScanFrame(mc) ==
    IF FreeFrames(mc) = {} THEN NR_PAGEFRAMES - 1 ELSE MinOf(FreeFrames(mc))

\* The PTE alloc_page writes (lines 182-191).
AllocPTE(pfn, rw) ==
    IF rw = 1
        THEN [valid |-> TRUE, writable |-> FALSE, pfn |-> pfn, private |-> 1]
        ELSE [valid |-> TRUE, writable |-> TRUE, pfn |-> pfn, private |-> 3]

\* AllocMapped with the exhaustion test of the header: -1 whenever the
\* scan found no free frame.
AllocMappedRefusesOccupied(pt, mc, vpn, rw) ==
    LET pfn == ScanFrame(mc)
    IN  IF mc[pfn] # 0
            THEN [pt |-> pt, mc |-> mc, ret |-> UINT_MAX]
            ELSE [pt |-> SetPTE(pt, vpn, AllocPTE(pfn, rw)),
                  mc |-> [mc EXCEPT ![pfn] = U32Inc(mc[pfn])],
                  ret |-> pfn]

\* Lines 169-195 on a page table whose directory for vpn exists.
AllocMapped(pt, mc, vpn, rw) ==
    LET pfn == ScanFrame(mc)
    IN  IF mc[pfn] = MAPCOUNT_CAP
            THEN [pt |-> pt, mc |-> mc, ret |-> UINT_MAX]
            ELSE [pt |-> SetPTE(pt, vpn, AllocPTE(pfn, rw)),
                  mc |-> [mc EXCEPT ![pfn] = U32Inc(mc[pfn])],
                  ret |-> pfn]

\* Lines 165-167: the directory is created when absent; fresh is what
\* malloc returned.
WithDirectory(pt, vpn, fresh) ==
    IF pt[outIndex(vpn)].present
        THEN pt
        ELSE [pt EXCEPT ![outIndex(vpn)] = fresh]

alloc_page(pt, mc, vpn, rw, fresh) ==
    AllocMapped(WithDirectory(pt, vpn, fresh), mc, vpn, rw)

(***************************************************************************)
(* free_page, on a page table whose directory for vpn exists.              *)
(***************************************************************************)
free_page(pt, mc, vpn) ==
    LET pfn == PTEOf(pt, vpn).pfn
    IN  [pt |-> SetPTE(pt, vpn, ZeroPTE),
         mc |-> [mc EXCEPT ![pfn] = U32Dec(mc[pfn])]]

(***************************************************************************)
(* handle_page_fault.  The result of the inner alloc_page is dropped.      *)
(***************************************************************************)
\* Lines 259-274: the PTE is invalid.
FaultInvalid(pt, mc, vpn, rw) ==
    LET pte == PTEOf(pt, vpn)
        pfn == pte.pfn
        pt1 == SetPTE(pt, vpn, [pte EXCEPT !.valid = TRUE])
    IN  IF mc[pfn] = 1
            THEN [pt |-> pt1, mc |-> mc, ret |-> 1]
            ELSE LET a == AllocMapped(pt1,
                                      [mc EXCEPT ![pfn] = U32Dec(mc[pfn])],
                                      vpn, rw)
                 IN  [pt |-> a.pt, mc |-> a.mc, ret |-> 1]

\* FaultCow without the mapcounts[pfn] == 1 test: every write fault copies.
FaultCowAlwaysCopies(pt, mc, vpn, rw) ==
    LET pte == PTEOf(pt, vpn)
        pfn == pte.pfn
        pt1 == SetPTE(pt, vpn, [pte EXCEPT !.writable = TRUE])
        a == AllocMapped(pt1, [mc EXCEPT ![pfn] = U32Dec(mc[pfn])], vpn, rw)
    IN  [pt |-> a.pt, mc |-> a.mc, ret |-> 1]

\* Lines 278-295: the PTE is valid, not writable and private == 3.
FaultCow(pt, mc, vpn, rw) ==
    LET pte == PTEOf(pt, vpn)
        pfn == pte.pfn
        pt1 == SetPTE(pt, vpn, [pte EXCEPT !.writable = TRUE])
    IN  IF mc[pfn] = 1
            THEN [pt |-> pt1, mc |-> mc, ret |-> 1]
            ELSE LET a == AllocMapped(pt1,
                                      [mc EXCEPT ![pfn] = U32Dec(mc[pfn])],
                                      vpn, rw)
                 IN  [pt |-> a.pt, mc |-> a.mc, ret |-> 1]

\* handle_page_fault without the private == 3 test: every valid PTE that is
\* not writable is taken for a copy-on-write page.
HandlePageFaultAnyProtected(pt, mc, vpn, rw) ==
    LET pte == PTEOf(pt, vpn)
    IN  IF ~pt[outIndex(vpn)].present
            THEN [pt |-> pt, mc |-> mc, ret |-> 0]
        ELSE IF ~pte.valid
            THEN FaultInvalid(pt, mc, vpn, rw)
        ELSE IF ~pte.writable
            THEN FaultCow(pt, mc, vpn, rw)
        ELSE [pt |-> pt, mc |-> mc, ret |-> 0]

handle_page_fault(pt, mc, vpn, rw) ==
    LET pte == PTEOf(pt, vpn)
    IN  IF ~pt[outIndex(vpn)].present
            THEN [pt |-> pt, mc |-> mc, ret |-> 0]
        ELSE IF ~pte.valid
            THEN FaultInvalid(pt, mc, vpn, rw)
        ELSE IF ~pte.writable /\ pte.private = 3
            THEN FaultCow(pt, mc, vpn, rw)
        ELSE [pt |-> pt, mc |-> mc, ret |-> 0]

(***************************************************************************)
(* switch_process.                                                         *)
(***************************************************************************)
\* list_for_each_entry (lines 330-335): the positions of the ready queue
\* whose process carries pid; the loop stops at the first.
QueuePositions(q, ps, pid) == {k \in 1 .. Len(q) : ps[q[k]].pid = pid}

RemoveAt(q, k) == [i \in 1 .. (Len(q) - 1) |-> IF i < k THEN q[i] ELSE q[i + 1]]

\* SwitchQueue with list_add in place of list_add_tail: current goes to
\* the head.
SwitchQueueAddHead(q, cur, k) == <<cur>> \o RemoveAt(q, k)

\* Lines 347-350: current goes to the tail, then the chosen entry is
\* unlinked.
SwitchQueue(q, cur, k) == RemoveAt(Append(q, cur), k)

\* The number of mapcounts[...]++ the fork loop performs on frame f: one
\* per valid PTE of the parent naming f, in directories that exist.
ForkIncrements(pt, f) ==
    Cardinality({v \in VPNs : /\ pt[outIndex(v)].present
                              /\ PTEOf(pt, v).valid
                              /\ PTEOf(pt, v).pfn = f})

\* n increments of a 32-bit counter; in two's complement the sum of the
\* integers names the sum of the bit patterns.
U32Add(x, n) == x + n

ForkMapcounts(pt, mc) ==
    [f \in Frames |-> U32Add(mc[f], ForkIncrements(pt, f))]

\* Lines 382-385 on one copied entry.
ForkPTE(pte) ==
    IF pte.private = 3 THEN [pte EXCEPT !.writable = FALSE] ELSE pte

\* The parent's page table after the loop of lines 367-391.
ForkParent(pt) ==
    [i \in Outer |->
        IF ~pt[i].present
            THEN pt[i]
            ELSE [pt[i] EXCEPT !.ptes =
                    [j \in Inner |-> IF pt[i].ptes[j].valid
                                        THEN ForkPTE(pt[i].ptes[j])
                                        ELSE pt[i].ptes[j]]]]

\* The child's page table.  The child and its directories come from
\* malloc: a slot the loop skips (line 369) and an entry the parent holds
\* invalid (line 375) are never written and keep the heap's content h.
ForkChild(pt, h) ==
    [i \in Outer |->
        IF ~pt[i].present
            THEN UninitOuter(h)
            ELSE [present |-> TRUE,
                  ptes |-> [j \in Inner |-> IF pt[i].ptes[j].valid
                                               THEN ForkPTE(pt[i].ptes[j])
                                               ELSE h]]]

(***************************************************************************)
(* The initial state: the framework's static init process (pid 0) with an  *)
(* empty page table runs, the ready queue is empty, no frame is mapped and *)
(* the TLB is zero.                                                        *)
(***************************************************************************)
\* The record of a call: its name, arguments and result, and what the call
\* read on entry: whether vpn's directory existed, vpn's PTE, and the count
\* of the frame that PTE names.
Call(op, a, b, ret, pt, mc) ==
    [op |-> op, a |-> a, b |-> b, ret |-> ret,
     dir |-> pt[outIndex(a)].present,
     pte |-> PTEOf(pt, a),
     cnt |-> mc[PTEOf(pt, a).pfn]]

NoCall ==
    [op |-> "init", a |-> 0, b |-> 0, ret |-> 0,
     dir |-> FALSE, pte |-> ZeroPTE, cnt |-> 0]

\* A call that takes a pid reads no PTE.
PidCall(op, pid) == [NoCall EXCEPT !.op = op, !.a = pid]

Init ==
    /\ mapcounts = [f \in Frames |-> 0]
    /\ procs = <<[pid |-> 0, pagetable |-> ZeroPagetable]>>
    /\ processes = <<>>
    /\ current = 1
    /\ ptbr = 1
    /\ tlb = [i \in Slots |-> [valid |-> FALSE, vpn |-> 0, pfn |-> 0]]
    /\ segv = FALSE
    /\ heap \in UninitPTEs
    /\ last = NoCall
    /\ steps = 0

\* Calls are made while the program lives.
Running == ~segv

\* alloc_page(vpn, rw) on the current process.
AllocPage(vpn, rw) ==
    /\ Running
    /\ LET r == alloc_page(CurPT, mapcounts, vpn, rw, MallocDir(heap))
       IN  /\ procs' = [procs EXCEPT ![current].pagetable = r.pt]
           /\ mapcounts' = r.mc
           /\ last' = Call("alloc", vpn, rw, r.ret, CurPT, mapcounts)
    /\ steps' = steps + 1
    /\ UNCHANGED <<processes, current, ptbr, tlb, segv, heap>>

\* free_page(vpn) on the current process.  With no directory for vpn line
\* 215 reads through a NULL pointer and the program dies.
FreePage(vpn) ==
    /\ Running
    /\ IF CurPT[outIndex(vpn)].present
          THEN LET r == free_page(CurPT, mapcounts, vpn)
               IN  /\ procs' = [procs EXCEPT ![current].pagetable = r.pt]
                   /\ mapcounts' = r.mc
                   /\ tlb' = free_tlb(tlb, vpn)
                   /\ segv' = FALSE
          ELSE /\ segv' = TRUE
               /\ UNCHANGED <<procs, mapcounts, tlb>>
    /\ last' = Call("free", vpn, 0, 0, CurPT, mapcounts)
    /\ steps' = steps + 1
    /\ UNCHANGED <<processes, current, ptbr, heap>>

\* handle_page_fault(vpn, rw) on the current process.
HandlePageFault(vpn, rw) ==
    /\ Running
    /\ LET r == handle_page_fault(CurPT, mapcounts, vpn, rw)
       IN  /\ procs' = [procs EXCEPT ![current].pagetable = r.pt]
           /\ mapcounts' = r.mc
           /\ last' = Call("fault", vpn, rw, r.ret, CurPT, mapcounts)
    /\ steps' = steps + 1
    /\ UNCHANGED <<processes, current, ptbr, tlb, segv, heap>>

\* switch_process(pid) when a queued process carries pid (lines 345-351).
Switch(pid) ==
    /\ Running
    /\ QueuePositions(processes, procs, pid) # {}
    /\ LET k == MinOf(QueuePositions(processes, procs, pid))
       IN  /\ processes' = SwitchQueue(processes, current, k)
           /\ current' = processes[k]
           /\ ptbr' = processes[k]
    /\ tlb' = flush_tlb(tlb)
    /\ last' = PidCall("switch", pid)
    /\ steps' = steps + 1
    /\ UNCHANGED <<mapcounts, procs, segv, heap>>

\* switch_process(pid) when no queued process carries pid (lines 353-399).
Fork(pid) ==
    /\ Running
    /\ QueuePositions(processes, procs, pid) = {}
    /\ procs' = Append([procs EXCEPT ![current].pagetable = ForkParent(CurPT)],
                       [pid |-> pid, pagetable |-> ForkChild(CurPT, heap)])
    /\ mapcounts' = ForkMapcounts(CurPT, mapcounts)
    /\ processes' = Append(processes, current)
    /\ current' = Len(procs) + 1
    /\ ptbr' = Len(procs) + 1
    /\ tlb' = flush_tlb(tlb)
    /\ last' = PidCall("fork", pid)
    /\ steps' = steps + 1
    /\ UNCHANGED <<segv, heap>>

\* vpn is mapped in page table pt: its directory exists and its PTE is
\* valid.
Mapped(pt, vpn) == pt[outIndex(vpn)].present /\ PTEOf(pt, vpn).valid

\* The driver: any call, on any vpn up to MaxVpn and any pid up to MaxPid,
\* MaxSteps calls in a run, at most MaxProcs processes.
Next ==
    \/ \E vpn \in DriverVPNs, rw \in RWFlags :
            steps < MaxSteps /\ AllocPage(vpn, rw)
    \/ \E vpn \in DriverVPNs : steps < MaxSteps /\ FreePage(vpn)
    \/ \E vpn \in DriverVPNs, rw \in RWFlags :
            steps < MaxSteps /\ HandlePageFault(vpn, rw)
    \/ \E pid \in Pids : steps < MaxSteps /\ Switch(pid)
    \/ \E pid \in Pids :
            steps < MaxSteps /\ Len(procs) < MaxProcs /\ Fork(pid)

\* Every run: the heap reads as zero or not.
Spec == Init /\ [][Next]_vars

\* The translation of the framework fails, and the fault handler is
\* called, in the three cases its header lists (lines 233-237).
TranslateFails(pt, vpn, rw) ==
    \/ ~pt[outIndex(vpn)].present
    \/ ~PTEOf(pt, vpn).valid
    \/ (rw = RW_WRITE /\ ~PTEOf(pt, vpn).writable)

\* The framework's trace used as the headers of pa3.c describe: a page is
\* allocated at a vpn that has none, a mapped page is freed, the fault
\* handler runs when a translation fails.
NextTrace ==
    \/ \E vpn \in VPNs, rw \in RWFlags :
            steps < TraceSteps /\ ~Mapped(CurPT, vpn) /\ AllocPage(vpn, rw)
    \/ \E vpn \in VPNs :
            steps < TraceSteps /\ Mapped(CurPT, vpn) /\ FreePage(vpn)
    \/ \E vpn \in VPNs, rw \in RWFlags :
            steps < TraceSteps /\ TranslateFails(CurPT, vpn, rw)
                /\ HandlePageFault(vpn, rw)
    \/ \E pid \in Pids : steps < TraceSteps /\ Switch(pid)
    \/ \E pid \in Pids :
            steps < TraceSteps /\ Len(procs) < MaxProcs /\ Fork(pid)

\* The runs of such a trace in which malloc hands back zero-filled memory,
\* as a heap that nothing was freed into does.
InitZeroed == Init /\ heap = ZeroPTE

SpecTrace == InitZeroed /\ [][NextTrace]_vars

\* A trace that allocates writable pages at vpns that have none, while a
\* frame is free, and forks under a pid not used before.
NextCap ==
    \/ \E vpn \in VPNs :
            steps < CapSteps /\ ~Mapped(CurPT, vpn) /\ FreeFrames(mapcounts) # {}
                /\ AllocPage(vpn, RW_WRITE)
    \/ steps < CapSteps /\ Len(procs) < CapProcs /\ Fork(Len(procs))

SpecCap == InitZeroed /\ [][NextCap]_vars

\* A call on the TLB alone reads no PTE.
TlbCall(op, vpn, pfn) == [NoCall EXCEPT !.op = op, !.a = vpn, !.b = pfn]

\* insert_tlb(vpn, pfn).
InsertTlb(vpn, pfn) ==
    /\ Running
    /\ tlb' = insert_tlb(tlb, vpn, pfn)
    /\ last' = TlbCall("insert", vpn, pfn)
    /\ steps' = steps + 1
    /\ UNCHANGED <<mapcounts, procs, processes, current, ptbr, segv, heap>>

\* free_tlb(vpn).
FreeTlb(vpn) ==
    /\ Running
    /\ tlb' = free_tlb(tlb, vpn)
    /\ last' = TlbCall("free_tlb", vpn, 0)
    /\ steps' = steps + 1
    /\ UNCHANGED <<mapcounts, procs, processes, current, ptbr, segv, heap>>

\* The TLB's operations called with any arguments, between calls of
\* switch_process; flush_tlb runs as the first statement of switch_process.
NextTlb ==
    \/ \E vpn \in TlbVPNs, pfn \in TlbPfns :
            steps < TlbSteps /\ InsertTlb(vpn, pfn)
    \/ \E vpn \in TlbVPNs : steps < TlbSteps /\ FreeTlb(vpn)
    \/ \E pid \in Pids : steps < TlbSteps /\ Switch(pid)
    \/ \E pid \in Pids :
            steps < TlbSteps /\ Len(procs) < MaxProcs /\ Fork(pid)

SpecTlb == InitZeroed /\ [][NextTlb]_vars

\* A trace that keeps allocating writable pages, at vpns mapped or not and
\* with or without a free frame, and forks under a pid not used before.
NextFill ==
    \/ \E vpn \in FillVPNs : steps < FillSteps /\ AllocPage(vpn, RW_WRITE)
    \/ steps < FillSteps /\ Fork(Len(procs))

SpecFill == InitZeroed /\ [][NextFill]_vars

\* The trace of NextCap, with write faults once no frame is free.
NextExhaust ==
    \/ \E vpn \in VPNs :
            steps < ExhaustSteps /\ ~Mapped(CurPT, vpn)
                /\ FreeFrames(mapcounts) # {} /\ AllocPage(vpn, RW_WRITE)
    \/ steps < ExhaustSteps /\ Len(procs) < CapProcs /\ Fork(Len(procs))
    \/ \E vpn \in VPNs :
            steps < ExhaustSteps /\ FreeFrames(mapcounts) = {}
                /\ TranslateFails(CurPT, vpn, RW_WRITE)
                /\ HandlePageFault(vpn, RW_WRITE)

SpecExhaust == InitZeroed /\ [][NextExhaust]_vars

\* A memory access of the framework that the TLB does not serve and the
\* page table translates: the framework caches the translation it read,
\* insert_tlb(vpn, pfn of the current PTE).
TlbFill(vpn, rw) ==
    /\ ~lookup_tlb(tlb, vpn).hit
    /\ ~TranslateFails(CurPT, vpn, rw)
    /\ InsertTlb(vpn, PTEOf(CurPT, vpn).pfn)

\* The framework with its memory accesses: an access is served by the TLB
\* on a hit (nothing changes); on a miss the page table is consulted and
\* the translation cached, or, when the translation fails, the fault
\* handler is called.  Pages are allocated at any vpn, mapped pages are
\* freed, processes are switched.
NextMmu ==
    \/ \E vpn \in VPNs, rw \in RWFlags :
            steps < MmuSteps /\ AllocPage(vpn, rw)
    \/ \E vpn \in VPNs :
            steps < MmuSteps /\ Mapped(CurPT, vpn) /\ FreePage(vpn)
    \/ \E vpn \in VPNs, rw \in RWFlags : steps < MmuSteps /\ TlbFill(vpn, rw)
    \/ \E vpn \in VPNs, rw \in RWFlags :
            steps < MmuSteps /\ ~lookup_tlb(tlb, vpn).hit
                /\ TranslateFails(CurPT, vpn, rw) /\ HandlePageFault(vpn, rw)
    \/ \E pid \in Pids : steps < MmuSteps /\ Switch(pid)
    \/ \E pid \in Pids :
            steps < MmuSteps /\ Len(procs) < MaxProcs /\ Fork(pid)

SpecMmu == InitZeroed /\ [][NextMmu]_vars

(***************************************************************************)
(* What the properties speak of.                                           *)
(***************************************************************************)
\* The processes that exist: the running one and the queued ones.
Live == {current} \cup {processes[k] : k \in 1 .. Len(processes)}

\* The valid PTEs, over the living processes, whose pfn is f.
ValidRefs(f) ==
    {<<p, v>> \in Live \X VPNs :
        Mapped(procs[p].pagetable, v) /\ PTEOf(procs[p].pagetable, v).pfn = f}

\* C1: for every frame f, mapcounts[f] is the number of valid PTEs, over
\* the current process and every process in the ready queue, whose pfn is f.
C1_MapcountIsValidRefs ==
    \A f \in Frames : mapcounts[f] = Cardinality(ValidRefs(f))

\* C2: a valid, writable PTE of a living process names a frame whose count
\* is exactly 1.
C2_WritableIsExclusive ==
    \A p \in Live, v \in VPNs :
        (Mapped(procs[p].pagetable, v) /\ PTEOf(procs[p].pagetable, v).writable)
            => mapcounts[PTEOf(procs[p].pagetable, v).pfn] = 1

\* The step just taken is the call op with first argument a.
Called(op, a) == steps' # steps /\ last'.op = op /\ last'.a = a

\* vpn is a copy-on-write page of pt that is not writable at the moment.
CowProtected(pt, vpn) ==
    Mapped(pt, vpn) /\ ~PTEOf(pt, vpn).writable /\ PTEOf(pt, vpn).private = 3

\* C3: two processes share frame f at vpn v through copy-on-write-eligible,
\* non-writable PTEs and mapcounts[f] = 2.  A write fault at v in the
\* current process returns true, brings mapcounts[f] to 1, leaves the
\* faulting PTE valid, writable and on a frame other than f, and leaves the
\* other process's PTE as it was.
C3_WriteFaultCopies ==
    [][\A v \in VPNs, q \in Live \ {current} :
        LET pte == PTEOf(CurPT, v)
            new == PTEOf(procs'[current].pagetable, v)
        IN  (/\ Called("fault", v)
             /\ last'.b = RW_WRITE
             /\ CowProtected(CurPT, v)
             /\ CowProtected(procs[q].pagetable, v)
             /\ PTEOf(procs[q].pagetable, v).pfn = pte.pfn
             /\ mapcounts[pte.pfn] = 2)
            => /\ last'.ret = 1
               /\ mapcounts'[pte.pfn] = 1
               /\ new.valid /\ new.writable /\ new.pfn # pte.pfn
               /\ PTEOf(procs'[q].pagetable, v) = PTEOf(procs[q].pagetable, v)
               /\ ~PTEOf(procs'[q].pagetable, v).writable]_vars

\* C4: the current process holds a copy-on-write-eligible PTE at v on
\* frame f and mapcounts[f] = 1.  After a fork mapcounts[f] = 2 and the
\* parent's and the child's PTE at v are valid, on f and not writable; and
\* every frame's count has grown by the number of valid parent PTEs on it.
C4_ForkProtects ==
    [][\A pid \in Pids :
        Called("fork", pid) =>
            /\ \A v \in VPNs :
                 LET pte == PTEOf(CurPT, v)
                     par == PTEOf(procs'[current].pagetable, v)
                     chi == PTEOf(procs'[current'].pagetable, v)
                 IN  (Mapped(CurPT, v) /\ pte.private = 3
                        /\ mapcounts[pte.pfn] = 1)
                     => /\ mapcounts'[pte.pfn] = 2
                        /\ par.valid /\ par.pfn = pte.pfn /\ ~par.writable
                        /\ chi.valid /\ chi.pfn = pte.pfn /\ ~chi.writable
            /\ \A f \in Frames :
                 mapcounts'[f] = mapcounts[f] + ForkIncrements(CurPT, f)]_vars

\* C5: a write fault on a valid, non-writable, copy-on-write-eligible PTE
\* whose frame has count 1 returns true and sets writable on that PTE; the
\* pfn, every count and every other PTE stay as they were.
C5_PromoteInPlace ==
    [][\A v \in VPNs :
        (/\ Called("fault", v)
         /\ last'.b = RW_WRITE
         /\ CowProtected(CurPT, v)
         /\ mapcounts[PTEOf(CurPT, v).pfn] = 1)
        => /\ last'.ret = 1
           /\ mapcounts' = mapcounts
           /\ procs' = [procs EXCEPT ![current].pagetable =
                          SetPTE(CurPT, v,
                                 [PTEOf(CurPT, v) EXCEPT !.writable = TRUE])]]_vars

\* A write fault has just promoted a page in place.
C5_Witness ==
    /\ last.op = "fault" /\ last.b = RW_WRITE /\ last.ret = 1
    /\ last.dir /\ last.pte.valid /\ ~last.pte.writable /\ last.pte.private = 3
    /\ last.cnt = 1
    /\ PTEOf(CurPT, last.a).writable
    /\ Len(processes) > 0

\* C6: when no frame has count zero, alloc_page returns -1, changes no
\* count and maps nothing: the page table is as it was, but for the
\* directory created for vpn.
C6_ExhaustionFails ==
    [][\A v \in VPNs :
        (Called("alloc", v) /\ FreeFrames(mapcounts) = {})
        => /\ last'.ret = UINT_MAX
           /\ mapcounts' = mapcounts
           /\ procs' = [procs EXCEPT ![current].pagetable =
                          WithDirectory(CurPT, v, MallocDir(heap))]]_vars

\* f is the lowest-indexed frame whose count is zero.
LowestFree(mc, f) == mc[f] = 0 /\ \A g \in Frames : g < f => mc[g] # 0

\* C7: when some frame has count zero, alloc_page(vpn, rw) on an unmapped
\* vpn returns the lowest-indexed such frame, takes its count from 0 to 1
\* and leaves the PTE valid on it: not writable and private read-only
\* (private = 1) when rw is read-only, writable and copy-on-write-eligible
\* (private = 3) otherwise.
C7_LowestFreeFrame ==
    [][\A v \in VPNs, f \in Frames :
        (Called("alloc", v) /\ ~Mapped(CurPT, v) /\ LowestFree(mapcounts, f))
        => LET new == procs'[current].pagetable
           IN  /\ last'.ret = f
               /\ mapcounts' = [mapcounts EXCEPT ![f] = 1]
               /\ new[outIndex(v)].present
               /\ PTEOf(new, v).valid /\ PTEOf(new, v).pfn = f
               /\ last'.b = RW_READ =>
                     ~PTEOf(new, v).writable /\ PTEOf(new, v).private = 1
               /\ last'.b # RW_READ =>
                     PTEOf(new, v).writable /\ PTEOf(new, v).private = 3]_vars

\* alloc_page has just created a directory and mapped the page onto
\* frame 1 while frame 2 was free as well.
C7_Witness ==
    /\ last.op = "alloc" /\ ~last.dir /\ last.ret = 1
    /\ mapcounts[0] # 0 /\ mapcounts[1] = 1 /\ mapcounts[2] = 0
    /\ Mapped(CurPT, last.a) /\ PTEOf(CurPT, last.a).pfn = 1

\* C9: free_page(v) on a valid PTE on frame f takes exactly one from
\* mapcounts[f] and clears the PTE; when the PTE was the last reference the
\* count becomes 0; a frame another process still references keeps a
\* nonzero count, and alloc_page does not hand out a frame that another
\* process references while a free frame exists.
C9_ReleaseAndReuse ==
    [][/\ \A v \in VPNs :
            LET f == PTEOf(CurPT, v).pfn
            IN  (Called("free", v) /\ Mapped(CurPT, v))
                => /\ mapcounts' = [mapcounts EXCEPT ![f] = U32Dec(mapcounts[f])]
                   /\ PTEOf(procs'[current].pagetable, v) = ZeroPTE
                   /\ ValidRefs(f) = {<<current, v>>} => mapcounts'[f] = 0
                   /\ (\E r \in ValidRefs(f) : r[1] # current)
                          => mapcounts'[f] # 0
       /\ \A v \in VPNs, f \in Frames :
            (Called("alloc", v) /\ FreeFrames(mapcounts) # {} /\ last'.ret = f)
                => ~\E r \in ValidRefs(f) : r[1] # current]_vars

\* C8: no frame's count exceeds 16, and no frame is referenced by more
\* than 16 valid PTEs.
C8_SharingCap ==
    \A f \in Frames :
        /\ ~U32Less(MAPCOUNT_CAP, mapcounts[f])
        /\ Cardinality(ValidRefs(f)) <= MAPCOUNT_CAP

\* The ready queue holds each process at most once.
NoDuplicates(q) == \A i, j \in 1 .. Len(q) : q[i] = q[j] => i = j

\* Every process is in exactly one place: it runs or it is queued once.
C10_Owned ==
    /\ \A k \in 1 .. Len(processes) : processes[k] # current
    /\ NoDuplicates(processes)
    /\ Live = 1 .. Len(procs)
    /\ ptbr = current

\* C10: switch_process(pid) with pid in the ready queue takes exactly the
\* first process carrying pid out of the queue, makes it current with ptbr
\* on its page table, puts the previous current at the tail and keeps the
\* other queued processes in order; and at all times every process is in
\* exactly one of the two places.
C10_SwitchSemantics ==
    /\ []C10_Owned
    /\ [][\A pid \in Pids :
            Called("switch", pid) =>
                \E k \in 1 .. Len(processes) :
                    /\ procs[processes[k]].pid = pid
                    /\ \A i \in 1 .. (k - 1) : procs[processes[i]].pid # pid
                    /\ current' = processes[k]
                    /\ ptbr' = processes[k]
                    /\ Len(processes') = Len(processes)
                    /\ processes'[Len(processes')] = current
                    /\ \A i \in 1 .. (k - 1) : processes'[i] = processes[i]
                    /\ \A i \in k .. (Len(processes) - 1) :
                            processes'[i] = processes[i + 1]
                    /\ procs' = procs /\ mapcounts' = mapcounts]_vars

\* A switch has just taken the second of three queued processes.
C10_Witness ==
    /\ last.op = "switch"
    /\ current = 2
    /\ processes = <<1, 3, 4>>

\* C11: switch_process(pid) with pid absent from the ready queue creates
\* one process; it becomes current, carries pid, and ptbr is on its page
\* table; the old current is appended at the tail of the ready queue; and
\* for every vpn the child's PTE is valid exactly when the parent's is,
\* with the parent's pfn and permission tag.
C11_ForkPostState ==
    [][\A pid \in Pids :
        Called("fork", pid) =>
            /\ Len(procs') = Len(procs) + 1
            /\ current' = Len(procs')
            /\ procs'[current'].pid = pid
            /\ ptbr' = current'
            /\ processes' = Append(processes, current)
            /\ \A v \in VPNs :
                 LET par == procs'[current].pagetable
                     chi == procs'[current'].pagetable
                 IN  /\ Mapped(chi, v) <=> Mapped(par, v)
                     /\ Mapped(par, v) =>
                           /\ PTEOf(chi, v).pfn = PTEOf(par, v).pfn
                           /\ PTEOf(chi, v).private = PTEOf(par, v).private]_vars

\* No slot of t is valid, and lookup_tlb misses for every vpn.
TlbEmpty(t) ==
    /\ \A i \in Slots : ~t[i].valid
    /\ \A v \in VPNs : ~lookup_tlb(t, v).hit

\* C12: after flush_tlb, and after every switch_process call, switching
\* or forking, the TLB holds no valid entry and lookup_tlb misses for every
\* vpn; it stays so until the next insert_tlb.
C12_FlushOnSwitch ==
    /\ []TlbEmpty(flush_tlb(tlb))
    /\ [][\A pid \in Pids :
            (Called("switch", pid) \/ Called("fork", pid)) => TlbEmpty(tlb')]_vars
    /\ [][(TlbEmpty(tlb) /\ last'.op # "insert") => TlbEmpty(tlb')]_vars

\* Two translations were inserted and the fork that followed left no
\* valid entry.
C12_Witness ==
    /\ last.op = "fork" /\ steps = 3
    /\ tlb[1].pfn # 0
    /\ TlbEmpty(tlb)

\* C16: insert_tlb(vpn, pfn) fills the lowest-indexed invalid slot and
\* changes no other slot; with every slot valid it changes nothing; and a
\* (vpn, pfn) that lookup_tlb returned before an insert of another vpn is
\* returned after it.
C16_InsertNeverEvicts ==
    [][\A v \in VPNs :
        Called("insert", v) =>
            /\ \A i \in Slots :
                 (~tlb[i].valid /\ \A j \in Slots : j < i => tlb[j].valid)
                 => /\ tlb'[i] = [valid |-> TRUE, vpn |-> v, pfn |-> last'.b]
                    /\ \A j \in Slots \ {i} : tlb'[j] = tlb[j]
            /\ (\A i \in Slots : tlb[i].valid) => tlb' = tlb
            /\ \A w \in VPNs \ {v} :
                 lookup_tlb(tlb, w).hit
                    => lookup_tlb(tlb', w) = lookup_tlb(tlb, w)]_vars

\* An insert has just been dropped: every slot is valid and none holds
\* the translation the call carried.
C16_Witness ==
    /\ last.op = "insert"
    /\ \A i \in Slots : tlb[i].valid
    /\ \A i \in Slots : ~(tlb[i].vpn = last.a /\ tlb[i].pfn = last.b)

\* C13: free_page(v) on a vpn the current process does not map, its
\* directory absent or its PTE invalid, changes no count and no PTE and
\* dereferences no absent directory.
C13_FreeUnmappedRejected ==
    [][\A v \in VPNs :
        (Called("free", v) /\ ~Mapped(CurPT, v))
        => /\ ~segv'
           /\ mapcounts' = mapcounts
           /\ procs' = procs]_vars

Candidate(mc) ==
    CHOOSE f \in Frames :
        \/ LowestFree(mc, f)
        \/ (\A g \in Frames : mc[g] # 0) /\ f = NR_PAGEFRAMES - 1

C17_ResolvedOnlyIfResolved ==
    [][\A v \in VPNs :
        LET pte == PTEOf(CurPT, v)
            old == pte.pfn
            dec == [mapcounts EXCEPT ![old] = U32Dec(mapcounts[old])]
            new == PTEOf(procs'[current].pagetable, v)
        IN  (/\ Called("fault", v)
             /\ CurPT[outIndex(v)].present
             /\ ~pte.valid \/ (~pte.writable /\ pte.private = 3)
             /\ mapcounts[old] # 1
             /\ dec[Candidate(dec)] = MAPCOUNT_CAP)
            => /\ last'.ret # 1
               /\ mapcounts'[old] = mapcounts[old]
               /\ ~pte.valid => ~(new.valid /\ new.pfn = old)
               /\ pte.valid => ~(new.writable /\ new.pfn = old)]_vars

\* C18: every valid TLB entry (vpn, pfn) agrees with the current
\* process's PTE for vpn: the PTE is valid and its pfn is the cached one.
C18_TlbCoherent ==
    \A i \in Slots :
        tlb[i].valid =>
            /\ Mapped(CurPT, tlb[i].vpn)
            /\ PTEOf(CurPT, tlb[i].vpn).pfn = tlb[i].pfn

\* C19: no call takes a count from 0 to 2^32 - 1; and a fault on an
\* invalid PTE takes one from a frame's count only if a valid PTE that
\* named the frame no longer does.
C19_NoUnderflow ==
    [][/\ \A f \in Frames : mapcounts[f] = 0 => mapcounts'[f] # UINT_MAX
       /\ \A v \in VPNs, f \in Frames :
            (/\ Called("fault", v)
             /\ ~PTEOf(CurPT, v).valid
             /\ mapcounts'[f] = U32Dec(mapcounts[f]))
            => \E r \in ValidRefs(f) : r \notin ValidRefs(f)']_vars

\* C20: the pids of the current process and of the queued processes are
\* pairwise distinct.
C20_PidsDistinct ==
    \A p, q \in Live : procs[p].pid = procs[q].pid => p = q

=============================================================================
